---- MODULE Spec2Model ----
(***************************************************************************)
(* Model of caikit_embeddings.modules.embedding_retrieval.embedding:       *)
(* the TextEmbedding module (load/save/bootstrap, the truncation guard and *)
(* the six run_* request operations).                                      *)
(*                                                                         *)
(* Python values are represented as follows.                               *)
(*   str            a sequence of words (the tokenizer's word pieces)      *)
(*   Optional[x]    <<>> for None, <<x>> for the value x                   *)
(*   list           a sequence                                             *)
(*   dict           a function whose DOMAIN is the set of keys             *)
(*   exception      the name of the Python exception class, "" for none    *)
(***************************************************************************)
EXTENDS Integers, Sequences, FiniteSets, TLC

\* ------------------------------------------------------------------ bounds
MaxSentences == 2
MaxQueries == 2
MaxDocs == 2
MaxPathLen == 2

\* self.model.max_seq_length of the wrapped model
MaxSeqLength == 3

Words == {"a"}

None == <<>>
Some(x) == <<x>>
IsNone(o) == Len(o) = 0
Val(o) == o[1]

SeqsUpTo(S, n) == UNION {[1..k -> S] : k \in 0..n}
NonEmptySeqsUpTo(S, n) == UNION {[1..k -> S] : k \in 1..n}

\* every str the requests are drawn from: the texts that fit the model's
\* maximum sequence length ([CLS] and [SEP] included) and one text that is one
\* token too long
ShortTexts == SeqsUpTo(Words, MaxSeqLength - 2)
LongText == [i \in 1..(MaxSeqLength - 1) |-> "a"]
Texts == ShortTexts \cup {LongText}
\* Optional[str]
OptTexts == {None} \cup {Some(t) : t \in Texts}

\* ------------------------------------------------------ external libraries
\* tokenizer(text).input_ids: [CLS] + word pieces + [SEP], no truncation
Tokenize(text) == <<"[CLS]">> \o text \o <<"[SEP]">>

RECURSIVE CountWord(_, _)
CountWord(text, w) ==
    IF text = <<>> THEN 0
    ELSE (IF text[1] = w THEN 1 ELSE 0) + CountWord(Tail(text), w)

\* SentenceTransformer.encode of one text under the weights `weights`: a
\* 2-dimensional integer embedding, a function of the token sequence that the
\* model truncates to max_seq_length tokens
Truncate(ids) == SubSeq(ids, 1, IF Len(ids) < MaxSeqLength THEN Len(ids) ELSE MaxSeqLength)
EncodeOne(weights, text) ==
    LET ids == Truncate(Tokenize(text))
    IN  <<weights + 2 * CountWord(ids, "a"), Len(ids) - CountWord(ids, "a")>>

\* model.encode(list of texts): one embedding per text, in order
RECURSIVE EncodeBatch(_, _)
EncodeBatch(weights, texts) ==
    IF texts = <<>> THEN <<>>
    ELSE <<EncodeOne(weights, Head(texts))>> \o EncodeBatch(weights, Tail(texts))

Dot(u, v) == u[1] * v[1] + u[2] * v[2]

\* the integer square root of n, lo <= sqrt(n) < hi, by bisection
RECURSIVE ISqrtIn(_, _, _)
ISqrtIn(n, lo, hi) ==
    IF hi - lo <= 1 THEN lo
    ELSE LET mid == (lo + hi) \div 2
         IN  IF mid * mid <= n THEN ISqrtIn(n, mid, hi) ELSE ISqrtIn(n, lo, mid)
ISqrt(n) == ISqrtIn(n, 0, n + 1)

\* cos_sim(u, v), and dot_score of the normalized embeddings, in hundredths
\* (rounded down)
CosSim(u, v) == ISqrt((10000 * Dot(u, v) * Dot(u, v)) \div (Dot(u, u) * Dot(v, v)))

\* ------------------------------------------------------------------- state
VARIABLES
    flags,      \* the module globals IPEX_OPTIMIZE, USE_XPU, USE_MPS, PT2_COMPILE,
                \* and cuda.is_available()
    fs,         \* the directories on disk: path -> config record and weights
    saved,      \* history: the directories a save has written, with the weights
    handle,     \* Optional: the self.model of the current TextEmbedding instance
    pc,         \* "idle": waiting for a request; "done": a handler has finished
    call,       \* the operation invoked and its arguments
    outcome     \* what the handler did: exception raised or value returned,
                \* the texts given to the tokenizer, the batches given to encode

vars == <<flags, fs, saved, handle, pc, call, outcome>>

\* ------------------------------------------------------------ error_handler
\* error.type_check(code, str, x=x): None is rejected (allow_none is False)
TypeCheckFails(o) == IsNone(o)

Raised(exc, code, checked, encoded) ==
    [exc |-> exc, code |-> code, value |-> <<>>, checked |-> checked, encoded |-> encoded]
Returned(value, checked, encoded) ==
    [exc |-> "", code |-> "", value |-> value, checked |-> checked, encoded |-> encoded]

\* ------------------------------------------------------ _prevent_truncation
\* The exception one call _prevent_truncation(text) raises, "" when it returns.
\* The tokenizer itself raises ValueError for a text that is None.
\* (variant: the limit taken one token too high)
PreventTruncationMutOffByOne(text) ==
    IF IsNone(text) THEN "ValueError"
    ELSE IF Len(Tokenize(Val(text))) <= MaxSeqLength + 1 THEN "" ELSE "ValueError"
PreventTruncation(text) ==
    IF IsNone(text) THEN "ValueError"
    ELSE LET tokens == Len(Tokenize(Val(text)))
             max_tokens == MaxSeqLength
         IN  IF tokens <= max_tokens THEN "" ELSE "ValueError"
PreventTruncationCode(text) ==
    IF IsNone(text) THEN "" ELSE "<NLP08391926E>"

\* `for text in texts: self._prevent_truncation(text)`: the position of the
\* first text that raises, 0 when every text passes
FirstRaising(texts) ==
    IF \E i \in 1..Len(texts) : PreventTruncation(texts[i]) # ""
    THEN CHOOSE i \in 1..Len(texts) :
            /\ PreventTruncation(texts[i]) # ""
            /\ \A j \in 1..(i - 1) : PreventTruncation(texts[j]) = ""
    ELSE 0

\* the texts the tokenizer has seen when the loops over `texts` end
Checked(texts) ==
    IF FirstRaising(texts) = 0 THEN texts ELSE SubSeq(texts, 1, FirstRaising(texts))

Wrap(texts) == [i \in 1..Len(texts) |-> Some(texts[i])]
Unwrap(opts) == [i \in 1..Len(opts) |-> Val(opts[i])]

\* the guard loops over `texts` (Optional[str] each), then `body`
Guarded(texts, body) ==
    LET bad == FirstRaising(texts)
    IN  IF bad # 0
        THEN Raised(PreventTruncation(texts[bad]), PreventTruncationCode(texts[bad]),
                    Checked(texts), <<>>)
        ELSE body

\* ----------------------------------------------------------- run_embedding
RunEmbeddingOutcome(weights, text) ==
    IF TypeCheckFails(text) THEN Raised("TypeError", "<NLP27491611E>", <<>>, <<>>)
    ELSE Guarded(<<text>>,
            Returned(EncodeOne(weights, Val(text)), <<text>>, << <<Val(text)>> >>))

\* ---------------------------------------------------------- run_embeddings
\* `texts` is [str |-> an Optional str, list |-> a list]: a bare str is
\* promoted to a one-element list
RunEmbeddingsOutcome(weights, texts) ==
    LET list == IF IsNone(texts.str) THEN texts.list ELSE <<Val(texts.str)>>
    IN  Guarded(Wrap(list),
            Returned(EncodeBatch(weights, list), Wrap(list), <<list>>))

\* ------------------------------------------------- run_sentence_similarity
RunSentenceSimilarityOutcome(weights, source_sentence, sentences) ==
    Guarded(<<Some(source_sentence)>> \o Wrap(sentences),
        LET source_embedding == EncodeOne(weights, source_sentence)
            embeddings == EncodeBatch(weights, sentences)
        IN  Returned([i \in 1..Len(sentences) |-> CosSim(source_embedding, embeddings[i])],
                     <<Some(source_sentence)>> \o Wrap(sentences),
                     << <<source_sentence>>, sentences >>))

\* ----------------------------------------------- run_sentence_similarities
RunSentenceSimilaritiesOutcome(weights, source_sentences, sentences) ==
    Guarded(Wrap(source_sentences) \o Wrap(sentences),
        LET source_embedding == EncodeBatch(weights, source_sentences)
            embeddings == EncodeBatch(weights, sentences)
        IN  Returned([s \in 1..Len(source_sentences) |->
                        [i \in 1..Len(sentences) |->
                            CosSim(source_embedding[s], embeddings[i])]],
                     Wrap(source_sentences) \o Wrap(sentences),
                     <<source_sentences, sentences>>))

\* ------------------------------------------------------ run_rerank_queries
\* Python dicts
Get(d, k) == IF k \in DOMAIN d THEN d[k] ELSE None
GetDefault(d, k, default) == IF k \in DOMAIN d THEN d[k] ELSE default
Pop(d, k) == [kk \in DOMAIN d \ {k} |-> d[kk]]
Put(d, k, v) == [kk \in DOMAIN d \cup {k} |-> IF kk = k THEN v ELSE d[kk]]

\* truth value of an Optional[str]: None and "" are falsy
Truthy(o) == ~IsNone(o) /\ Val(o) # <<>>

\* get_text(srd): srd.get("text") or srd.get("_text", "")
GetText(srd) ==
    IF Truthy(Get(srd, "text")) THEN Get(srd, "text")
    ELSE GetDefault(srd, "_text", Some(<<>>))

\* `if top_n is None or top_n < 1: top_n = len(documents)`
\* (variant: only an unset top_n defaults)
TopNMutNoDefault(top_n, documents) ==
    IF IsNone(top_n) THEN Len(documents) ELSE Val(top_n)
TopN(top_n, documents) ==
    IF IsNone(top_n) \/ Val(top_n) < 1 THEN Len(documents) ELSE Val(top_n)

\* semantic_search(query_embeddings, doc_embeddings, top_k, dot_score) for one
\* query: the top_k documents by score, best first, as {"corpus_id", "score"}
\* dicts with 0-based corpus ids; equal scores keep document order
RECURSIVE Scores(_, _)
Scores(q, docs) ==
    IF docs = <<>> THEN <<>> ELSE <<CosSim(q, Head(docs))>> \o Scores(q, Tail(docs))
Rank(scores, i) ==
    Cardinality({j \in 1..Len(scores) :
        \/ scores[j] > scores[i]
        \/ scores[j] = scores[i] /\ j < i})
RECURSIVE TopK(_, _, _)
TopK(scores, p, k) ==
    IF p > k THEN <<>>
    ELSE LET i == CHOOSE i \in 1..Len(scores) : Rank(scores, i) = p - 1
         IN  <<[corpus_id |-> i - 1, score |-> scores[i]]>> \o TopK(scores, p + 1, k)
SearchOne(q, docs, top_k) ==
    TopK(Scores(q, docs), 1, IF top_k < Len(docs) THEN top_k ELSE Len(docs))
SemanticSearch(query_embeddings, doc_embeddings, top_k) ==
    [q \in 1..Len(query_embeddings) |->
        SearchOne(query_embeddings[q], doc_embeddings, top_k)]

\* the body of the "Fixup result dicts" loop for one dict x
\* (variant: the two flags exchanged)
FixupMutSwapFlags(x, documents, return_documents, return_text) ==
    LET corpus_id == x["corpus_id"]
        x1 == Put(Pop(x, "corpus_id"), "index", corpus_id)
        x2 == IF return_text THEN Put(x1, "document", documents[corpus_id + 1]) ELSE x1
    IN  IF return_documents THEN Put(x2, "text", GetText(documents[corpus_id + 1])) ELSE x2
Fixup(x, documents, return_documents, return_text) ==
    LET corpus_id == x["corpus_id"]
        x1 == Put(Pop(x, "corpus_id"), "index", corpus_id)
        x2 == IF return_documents THEN Put(x1, "document", documents[corpus_id + 1]) ELSE x1
    IN  IF return_text THEN Put(x2, "text", GetText(documents[corpus_id + 1])) ELSE x2

\* add_query(q)
AddQuery(queries, q, return_queries) ==
    IF return_queries THEN Some(queries[q]) ELSE None

\* RerankScore(**x) accepts exactly these keywords
RerankScoreFields == {"document", "index", "score", "text"}

\* `if len(queries) < 1 or len(documents) < 1`
\* (variant: `and` for `or`)
EmptyInputMutAnd(queries, documents) == Len(queries) < 1 /\ Len(documents) < 1
EmptyInput(queries, documents) == Len(queries) < 1 \/ Len(documents) < 1

\* `queries` and `documents` are Optional lists (None stands for any non-list)
RunRerankQueriesOutcome(weights, queries, documents, top_n, return_documents, return_queries, return_text) ==
    IF IsNone(queries) \/ IsNone(documents)
    THEN Put(Raised("TypeError", "<NLP09038249E>", <<>>, <<>>), "doc_texts", None)
    ELSE IF EmptyInput(Val(queries), Val(documents))
    THEN Put(Returned(<<>>, <<>>, <<>>), "doc_texts", None)
    ELSE
    LET qs == Val(queries)
        docs == Val(documents)
        n == TopN(top_n, docs)
        doc_texts == [i \in 1..Len(docs) |-> GetText(docs[i])]
        to_check == doc_texts \o Wrap(qs)
    IN  Put(Guarded(to_check,
            LET doc_embeddings == EncodeBatch(weights, Unwrap(doc_texts))
                query_embeddings == EncodeBatch(weights, qs)
                res == SemanticSearch(query_embeddings, doc_embeddings, n)
                fixed == [q \in 1..Len(res) |->
                            [p \in 1..Len(res[q]) |->
                                Fixup(res[q][p], docs, return_documents, return_text)]]
            IN  IF \E q \in 1..Len(fixed) : \E p \in 1..Len(fixed[q]) :
                       ~(DOMAIN fixed[q][p] \subseteq RerankScoreFields)
                THEN Raised("TypeError", "", to_check, <<Unwrap(doc_texts), qs>>)
                ELSE Returned([q \in 1..Len(fixed) |->
                                 [query |-> AddQuery(qs, q, return_queries),
                                  scores |-> fixed[q]]],
                              to_check, <<Unwrap(doc_texts), qs>>)),
            "doc_texts", Some(doc_texts))

\* -------------------------------------------------------- run_rerank_query
\* (variant: the query echoed whatever return_query)
RerankQueryEmptyMutAlwaysQuery(query, return_query) ==
    [query |-> query, scores |-> <<>>]
RerankQueryEmpty(query, return_query) ==
    [query |-> IF return_query THEN query ELSE None, scores |-> <<>>]

RunRerankQueryOutcome(weights, query, documents, top_n, return_documents, return_query, return_text) ==
    IF TypeCheckFails(query)
    THEN Put(Raised("TypeError", "<NLP05323654E>", <<>>, <<>>), "doc_texts", None)
    ELSE
    LET inner == RunRerankQueriesOutcome(weights, Some(<<Val(query)>>), documents, top_n,
                                         return_documents, return_query, return_text)
    IN  IF inner.exc # "" THEN inner
        ELSE [inner EXCEPT !.value =
                IF Len(inner.value) > 0 THEN inner.value[1]
                ELSE RerankQueryEmpty(query, return_query)]

\* ------------------------------------------------------------ module import
FALSY == {"no", "n", "false", "0", "f", "off"}

\* str.lower() on the values the environment variables are drawn from
Lower(s) == CASE s = "False" -> "false" [] s = "OFF" -> "off" [] OTHER -> s

\* getenv(name, default).lower() not in FALSY
EnvFlag(environ, name) ==
    Lower(IF IsNone(environ[name]) THEN "false" ELSE Val(environ[name])) \notin FALSY

\* the module globals after import; ipex_importable: whether
\* importlib.import_module("intel_extension_for_pytorch") succeeds; mps_available:
\* mps.is_built() and mps.is_available()
ImportFlags(environ, ipex_importable, mps_available) ==
    LET ipex_optimize == EnvFlag(environ, "IPEX_OPTIMIZE") /\ ipex_importable
    IN  [IPEX_OPTIMIZE |-> ipex_optimize,
         USE_XPU |-> IF ipex_optimize THEN EnvFlag(environ, "USE_XPU") ELSE FALSE,
         USE_MPS |-> IF ipex_optimize THEN FALSE
                     ELSE EnvFlag(environ, "USE_MPS") /\ mps_available,
         PT2_COMPILE |-> EnvFlag(environ, "PT2_COMPILE")]

\* -------------------------------------------------------------- filesystem
\* A path is a sequence of characters and names. The working directory:
Cwd == <<"/", "cwd">>
Join(dir, name) == dir \o <<"/">> \o name
\* os.path.abspath
Abspath(path) == IF path # <<>> /\ Head(path) = "/" THEN path ELSE Join(Cwd, path)

\* str.strip()
RECURSIVE LStrip(_)
LStrip(path) == IF path # <<>> /\ Head(path) = " " THEN LStrip(Tail(path)) ELSE path
RECURSIVE RStrip(_)
RStrip(path) ==
    IF path # <<>> /\ path[Len(path)] = " " THEN RStrip(SubSeq(path, 1, Len(path) - 1))
    ELSE path
Strip(path) == LStrip(RStrip(path))

\* a directory: the record of its config.yml (Optional) and the model weights
\* serialized in it (Optional)
EmptyDir == [config |-> None, weights |-> None]

ARTIFACTS_PATH_KEY == "artifacts_path"
ARTIFACTS_PATH_DEFAULT == <<"artifacts">>

\* ------------------------------------------------------------------- model
\* SentenceTransformer(model_name_or_path, device): the weights, the device,
\* the optimizations applied to the model since, in order, and the backend
\* torch.compile was given ("" while the model is not compiled)
NewModel(weights, device) ==
    [weights |-> weights, device |-> device, applied |-> <<>>, backend |-> ""]

\* bootstrap(model_name_or_path): no device override
BootstrapModel(name, cuda) == NewModel(name, IF cuda THEN "cuda" ELSE "cpu")

\* --------------------------------------------------------------- _optimize
\* ipex_raises, compile_raises: whether ipex.optimize, torch.compile would raise
\* The result is the exception raised ("" for none) and the model returned.
\* (variant: torch.compile attempted whatever PT2_COMPILE)
OptimizeMutAlwaysCompile(fl, model, ipex_raises, compile_raises) ==
    IF fl.IPEX_OPTIMIZE /\ ipex_raises
    THEN [exc |-> "Exception", model |-> model]
    ELSE
    LET m1 == IF fl.IPEX_OPTIMIZE
              THEN [model EXCEPT !.applied = Append(@, "ipex.optimize")] ELSE model
        backend == IF fl.IPEX_OPTIMIZE THEN "ipex"
                   ELSE IF fl.USE_MPS THEN "mps" ELSE "inductor"
    IN  [exc |-> "",
         model |-> IF ~compile_raises
                   THEN [m1 EXCEPT !.applied = Append(@, "torch.compile"),
                                   !.backend = backend]
                   ELSE m1]
Optimize(fl, model, ipex_raises, compile_raises) ==
    IF fl.IPEX_OPTIMIZE /\ ipex_raises
    THEN [exc |-> "Exception", model |-> model]
    ELSE
    LET m1 == IF fl.IPEX_OPTIMIZE
              THEN [model EXCEPT !.applied = Append(@, "ipex.optimize")] ELSE model
        backend == IF fl.IPEX_OPTIMIZE THEN "ipex"
                   ELSE IF fl.USE_MPS THEN "mps" ELSE "inductor"
    IN  [exc |-> "",
         model |-> IF fl.PT2_COMPILE /\ ~compile_raises
                   THEN [m1 EXCEPT !.applied = Append(@, "torch.compile"),
                                   !.backend = backend]
                   ELSE m1]

\* -------------------------------------------------------------------- load
\* `gpu`, with None resolved by SentenceTransformer to "cpu"
Device(fl, cuda) ==
    IF fl.USE_XPU THEN "xpu" ELSE IF fl.USE_MPS THEN "mps"
    ELSE IF cuda THEN "cuda" ELSE "cpu"

LoadOutcome(fl, files, model_path, cuda, ipex_raises, compile_raises) ==
    LET dir == Abspath(model_path)
    IN  IF dir \notin DOMAIN files \/ IsNone(files[dir].config)
        THEN Raised("FileNotFoundError", "ModuleConfig.load", <<>>, <<>>)
        ELSE
        LET config == Val(files[dir].config)
            artifacts_path == Get(config, ARTIFACTS_PATH_KEY)
        IN  IF ~Truthy(artifacts_path)
            THEN Raised("ValueError", "<NLP07391618E>", <<>>, <<>>)
            ELSE
            LET artifacts_dir == Join(dir, Val(artifacts_path))
            IN  IF artifacts_dir \notin DOMAIN files
                THEN Raised("FileNotFoundError", "<NLP34197772E>", <<>>, <<>>)
                ELSE IF IsNone(files[artifacts_dir].weights)
                THEN Raised("OSError", "SentenceTransformer", <<>>, <<>>)
                ELSE
                LET model == NewModel(Val(files[artifacts_dir].weights), Device(fl, cuda))
                    opt == Optimize(fl, model, ipex_raises, compile_raises)
                IN  IF opt.exc # "" THEN Raised(opt.exc, "ipex.optimize", <<>>, <<>>)
                    ELSE Returned(opt.model, <<>>, <<>>)

\* -------------------------------------------------------------------- save
\* the config of a fresh ModuleSaver(module=self, model_path): module metadata
SaverConfig == [module_id |-> Some(<<"EEB12558-B4FA-4F34-A9FD-3F5890E9CD3F">>)]

\* the directory save(model_path) writes to
SaveTarget(model_path) == Abspath(Strip(model_path))

\* os.makedirs(path, exist_ok=False): whether it raises FileExistsError
\* (variant: exist_ok=True)
MakedirsRaisesMutExistOk(files, path) == FALSE
MakedirsRaises(files, path) == path \in DOMAIN files

\* the filesystem after save(model_path) on the model `model`, and the
\* exception it raises
SaveOutcome(files, model, model_path) ==
    IF IsNone(model_path)
    THEN [exc |-> "TypeError", code |-> "<NLP82314992E>", files |-> files]
    ELSE IF Strip(Val(model_path)) = <<>>
    THEN [exc |-> "ValueError", code |-> "<NLP40145207E>", files |-> files]
    ELSE
    LET model_config_path == SaveTarget(Val(model_path))
    IN  IF MakedirsRaises(files, model_config_path)
        THEN [exc |-> "FileExistsError", code |-> "os.makedirs", files |-> files]
        ELSE
        LET made == Put(files, model_config_path, EmptyDir)
            configured == Get(SaverConfig, ARTIFACTS_PATH_KEY)
            artifacts_path == IF ~Truthy(configured) THEN ARTIFACTS_PATH_DEFAULT
                              ELSE Val(configured)
            saver_config == IF ~Truthy(configured)
                            THEN Put(SaverConfig, ARTIFACTS_PATH_KEY, Some(artifacts_path))
                            ELSE SaverConfig
            artifacts_dir == Abspath(Join(model_config_path, artifacts_path))
            with_model == Put(made, artifacts_dir,
                              [config |-> None, weights |-> Some(model.weights)])
        IN  [exc |-> "", code |-> "",
             files |-> [with_model EXCEPT ![model_config_path].config = Some(saver_config)]]

\* ------------------------------------------------------------------ inputs
\* document records of the rerank requests: no key, a "text" that is a str,
\* or a "_text" that is a str or None
Documents == UNION {[{} -> OptTexts],
                    [{"text"} -> {Some(t) : t \in Texts}],
                    [{"_text"} -> OptTexts]}
OptLists(S, n) == {None} \cup {Some(l) : l \in SeqsUpTo(S, n)}
\* top_n: unset, not positive, below, at and above the number of documents
TopNs == {None, Some(0), Some(1), Some(2)}

\* the pretrained models bootstrap can name, by their weights
ModelNames == {1, 2}

\* the values of the environment variables
EnvValues == {None, Some("False"), Some("1")}
Environs == [{"IPEX_OPTIMIZE", "USE_XPU", "USE_MPS", "PT2_COMPILE"} -> EnvValues]
NoFlags == [IPEX_OPTIMIZE |-> FALSE, USE_XPU |-> FALSE, USE_MPS |-> FALSE,
            PT2_COMPILE |-> FALSE]

\* the path arguments of save and load
PathChars == {" ", "x"}
Paths == SeqsUpTo(PathChars, MaxPathLen)

\* what may be on disk at the start: nothing; an empty directory; a directory
\* whose config lacks the artifacts key; a directory whose config names an
\* artifacts subdirectory that is missing, or that holds no model
OldDir == Abspath(<<"x">>)
InitialFiles ==
    { <<>>,
      [d \in {OldDir} |-> EmptyDir],
      [d \in {OldDir} |-> [config |-> Some(SaverConfig), weights |-> None]],
      [d \in {OldDir} |->
          [config |-> Some(Put(SaverConfig, ARTIFACTS_PATH_KEY, Some(ARTIFACTS_PATH_DEFAULT))),
           weights |-> None]],
      [d \in {OldDir, Join(OldDir, ARTIFACTS_PATH_DEFAULT)} |->
          IF d = OldDir
          THEN [config |-> Some(Put(SaverConfig, ARTIFACTS_PATH_KEY,
                                    Some(ARTIFACTS_PATH_DEFAULT))),
                weights |-> None]
          ELSE EmptyDir] }

NoCall == [op |-> "none"]
NoOutcome == Returned(<<>>, <<>>, <<>>)

\* ------------------------------------------------------- request operations
\* A TextEmbedding bootstrapped from the first model serves the requests.
Init ==
    /\ flags = NoFlags
    /\ fs = <<>>
    /\ saved = {}
    /\ handle = Some(BootstrapModel(1, FALSE))
    /\ pc = "idle"
    /\ call = NoCall
    /\ outcome = NoOutcome

Finish(c, o) ==
    /\ pc' = "done"
    /\ call' = c
    /\ outcome' = o
    /\ UNCHANGED <<flags, fs, saved, handle>>

RunEmbedding ==
    /\ pc = "idle"
    /\ \E text \in OptTexts :
        Finish([op |-> "run_embedding", text |-> text],
               RunEmbeddingOutcome(Val(handle).weights, text))

RunEmbeddings ==
    /\ pc = "idle"
    /\ \E texts \in {[str |-> Some(t), list |-> <<>>] : t \in Texts}
                 \cup {[str |-> None, list |-> l] : l \in SeqsUpTo(Texts, MaxSentences)} :
        Finish([op |-> "run_embeddings", texts |-> texts],
               RunEmbeddingsOutcome(Val(handle).weights, texts))

RunSentenceSimilarity ==
    /\ pc = "idle"
    /\ \E source_sentence \in Texts, sentences \in NonEmptySeqsUpTo(Texts, MaxSentences) :
        Finish([op |-> "run_sentence_similarity",
                source_sentence |-> source_sentence, sentences |-> sentences],
               RunSentenceSimilarityOutcome(Val(handle).weights, source_sentence, sentences))

RunSentenceSimilarities ==
    /\ pc = "idle"
    /\ \E source_sentences \in NonEmptySeqsUpTo(Texts, MaxSentences),
          sentences \in NonEmptySeqsUpTo(Texts, MaxSentences) :
        Finish([op |-> "run_sentence_similarities",
                source_sentences |-> source_sentences, sentences |-> sentences],
               RunSentenceSimilaritiesOutcome(Val(handle).weights, source_sentences,
                                              sentences))

RunRerankQueries ==
    /\ pc = "idle"
    /\ \E queries \in OptLists(Texts, MaxQueries), documents \in OptLists(Documents, MaxDocs),
          top_n \in TopNs, return_documents \in BOOLEAN, return_queries \in BOOLEAN,
          return_text \in BOOLEAN :
        Finish([op |-> "run_rerank_queries", queries |-> queries, documents |-> documents,
                top_n |-> top_n, return_documents |-> return_documents,
                return_queries |-> return_queries, return_text |-> return_text],
               RunRerankQueriesOutcome(Val(handle).weights, queries, documents, top_n,
                                       return_documents, return_queries, return_text))

RunRerankQuery ==
    /\ pc = "idle"
    /\ \E query \in OptTexts, documents \in OptLists(Documents, MaxDocs),
          top_n \in TopNs, return_documents \in BOOLEAN, return_query \in BOOLEAN,
          return_text \in BOOLEAN :
        Finish([op |-> "run_rerank_query", query |-> query, documents |-> documents,
                top_n |-> top_n, return_documents |-> return_documents,
                return_query |-> return_query, return_text |-> return_text],
               RunRerankQueryOutcome(Val(handle).weights, query, documents, top_n,
                                     return_documents, return_query, return_text))

\* the response (or the exception) goes back to the caller
Respond ==
    /\ pc = "done"
    /\ pc' = "idle"
    /\ call' = NoCall
    /\ outcome' = NoOutcome
    /\ UNCHANGED <<flags, fs, saved, handle>>

Next ==
    \/ RunEmbedding
    \/ RunEmbeddings
    \/ RunSentenceSimilarity
    \/ RunSentenceSimilarities
    \/ RunRerankQueries
    \/ RunRerankQuery
    \/ Respond

Spec == Init /\ [][Next]_vars

\* ------------------------------------------------------ lifecycle operations
\* The module has been imported under some environment; no instance exists yet.
InitLifecycle ==
    /\ \E environ \in Environs, ipex_importable \in BOOLEAN, mps_available \in BOOLEAN :
          flags = ImportFlags(environ, ipex_importable, mps_available)
    /\ fs \in InitialFiles
    /\ saved = {}
    /\ handle = None
    /\ pc = "idle"
    /\ call = NoCall
    /\ outcome = NoOutcome

Bootstrap ==
    /\ pc = "idle"
    /\ \E model_name_or_path \in ModelNames, cuda \in BOOLEAN :
        /\ handle' = Some(BootstrapModel(model_name_or_path, cuda))
        /\ call' = [op |-> "bootstrap", model_name_or_path |-> model_name_or_path]
        /\ outcome' = Returned(BootstrapModel(model_name_or_path, cuda), <<>>, <<>>)
    /\ pc' = "done"
    /\ UNCHANGED <<flags, fs, saved>>

Load ==
    /\ pc = "idle"
    /\ \E model_path \in Paths \cup DOMAIN fs, cuda \in BOOLEAN,
          ipex_raises \in BOOLEAN, compile_raises \in BOOLEAN :
        LET o == LoadOutcome(flags, fs, model_path, cuda, ipex_raises, compile_raises)
        IN  /\ call' = [op |-> "load", model_path |-> model_path, cuda |-> cuda,
                        ipex_raises |-> ipex_raises, compile_raises |-> compile_raises]
            /\ outcome' = o
            /\ handle' = IF o.exc = "" THEN Some(o.value) ELSE handle
    /\ pc' = "done"
    /\ UNCHANGED <<flags, fs, saved>>

Save ==
    /\ pc = "idle"
    /\ ~IsNone(handle)
    /\ \E model_path \in {None} \cup {Some(path) : path \in Paths} :
        LET o == SaveOutcome(fs, Val(handle), model_path)
        IN  /\ call' = [op |-> "save", model_path |-> model_path, before |-> fs]
            /\ outcome' = Raised(o.exc, o.code, <<>>, <<>>)
            /\ fs' = o.files
            /\ saved' = IF o.exc = ""
                        THEN saved \cup {[path |-> SaveTarget(Val(model_path)),
                                          weights |-> Val(handle).weights]}
                        ELSE saved
    /\ pc' = "done"
    /\ UNCHANGED <<flags, handle>>

NextLifecycle ==
    \/ Bootstrap
    \/ Load
    \/ Save
    \/ Respond

SpecLifecycle == InitLifecycle /\ [][NextLifecycle]_vars

\* ================================================================== claims
Done(op) == pc = "done" /\ call.op = op
RequestOps == {"run_embedding", "run_embeddings", "run_sentence_similarity",
               "run_sentence_similarities", "run_rerank_queries", "run_rerank_query"}
RequestDone == pc = "done" /\ call.op \in RequestOps

Range(seq) == {seq[i] : i \in 1..Len(seq)}

\* an Optional[str] that is a str of more tokens than the model takes
TooLong(o) == ~IsNone(o) /\ Len(Val(o)) + 2 > MaxSeqLength
\* an Optional[str] that is a str the model takes whole
Fits(o) == ~IsNone(o) /\ Len(Val(o)) + 2 <= MaxSeqLength

\* the texts extracted from the document records of a rerank call
DocTextArgs == IF IsNone(call.documents) THEN {}
               ELSE {GetText(srd) : srd \in Range(Val(call.documents))}

\* every text argument of the call in progress, as Optional[str]
TextArgs ==
    CASE call.op = "run_embedding" -> {call.text}
      [] call.op = "run_embeddings" ->
            IF IsNone(call.texts.str) THEN {Some(t) : t \in Range(call.texts.list)}
            ELSE {call.texts.str}
      [] call.op = "run_sentence_similarity" ->
            {Some(call.source_sentence)} \cup {Some(t) : t \in Range(call.sentences)}
      [] call.op = "run_sentence_similarities" ->
            {Some(t) : t \in Range(call.source_sentences) \cup Range(call.sentences)}
      [] call.op = "run_rerank_queries" ->
            (IF IsNone(call.queries) THEN {}
             ELSE {Some(t) : t \in Range(Val(call.queries))}) \cup DocTextArgs
      [] call.op = "run_rerank_query" -> {call.query} \cup DocTextArgs
      [] OTHER -> {}

\* no batch given to encode holds a text longer than the model takes
EncodedTextsFit ==
    \A b \in 1..Len(outcome.encoded) : \A t \in Range(outcome.encoded[b]) : Fits(Some(t))

\* the rerank call ends before its truncation guard: an argument of the wrong
\* type, or an empty list of queries or of documents
EndsBeforeGuard ==
    \/ /\ call.op = "run_rerank_queries"
       /\ \/ IsNone(call.queries) \/ IsNone(call.documents)
          \/ Val(call.queries) = <<>> \/ Val(call.documents) = <<>>
    \/ /\ call.op = "run_rerank_query"
       /\ \/ IsNone(call.query) \/ IsNone(call.documents)
          \/ Val(call.documents) = <<>>

\* the arguments of the rerank call have the declared types
WellTyped ==
    /\ call.op = "run_rerank_queries" => ~IsNone(call.queries) /\ ~IsNone(call.documents)
    /\ call.op = "run_rerank_query" => ~IsNone(call.query) /\ ~IsNone(call.documents)

\* C1 as stated (for arguments of the declared types): in every request
\* operation the encoder never gets a text longer than the model's maximum
\* sequence length, and an operation with any over-length text argument raises
\* a value-validation error without calling encode at all.
C1_AsStated ==
    (RequestDone /\ WellTyped) =>
        /\ EncodedTextsFit
        /\ (\E t \in TextArgs : TooLong(t)) =>
              outcome.exc = "ValueError" /\ outcome.encoded = <<>>

\* C1 amended: the encoder never gets an over-length text, and an operation
\* with any over-length text argument never calls encode; it raises ValueError
\* unless a rerank call ends before its guard (a type error, or an empty list of
\* queries or documents, which returns an empty result), and then the tokenizer
\* is not called either.
C1_NoOverlongTextEncoded ==
    RequestDone =>
        /\ EncodedTextsFit
        /\ (\E t \in TextArgs : TooLong(t)) =>
              /\ outcome.encoded = <<>>
              /\ ~EndsBeforeGuard => outcome.exc = "ValueError"
              /\ EndsBeforeGuard =>
                    /\ outcome.checked = <<>>
                    /\ outcome.exc \in {"", "TypeError"}
                    /\ (outcome.exc = "" /\ call.op = "run_rerank_queries") =>
                            outcome.value = <<>>
                    /\ (outcome.exc = "" /\ call.op = "run_rerank_query") =>
                            outcome.value.scores = <<>>

\* a rerank call whose documents fit and whose second query is too long: the
\* guard has tokenized the document and both queries, and raised
C1_Witness ==
    /\ Done("run_rerank_queries")
    /\ ~IsNone(call.queries) /\ ~IsNone(call.documents)
    /\ Len(Val(call.queries)) = 2 /\ Len(Val(call.documents)) = 1
    /\ ~TooLong(Some(Val(call.queries)[1])) /\ TooLong(Some(Val(call.queries)[2]))
    /\ outcome.exc = "ValueError" /\ outcome.code = "<NLP08391926E>"
    /\ Len(outcome.checked) = 3
    /\ outcome.encoded = <<>>

\* the scores of result q are those of query q against the documents named
ScoresOfQuery(result, query, documents) ==
    \A p \in 1..Len(result.scores) :
        LET x == result.scores[p]
        IN  x["score"] = CosSim(EncodeOne(Val(handle).weights, query),
                                EncodeOne(Val(handle).weights,
                                          Val(GetText(documents[x["index"] + 1]))))

\* C2: for non-empty lists of queries and documents that all pass the guard,
\* run_rerank_queries returns one result per query, in query order, each of
\* exactly min(top_n, number of documents) scores in non-increasing order, where
\* a top_n that is None or below 1 counts as the number of documents.
C2_RerankResultShape ==
    (/\ Done("run_rerank_queries")
     /\ ~IsNone(call.queries) /\ ~IsNone(call.documents)
     /\ Val(call.queries) # <<>> /\ Val(call.documents) # <<>>
     /\ \A t \in TextArgs : Fits(t)) =>
        LET queries == Val(call.queries)
            documents == Val(call.documents)
            n == Len(documents)
            k == IF IsNone(call.top_n) \/ Val(call.top_n) < 1 THEN n
                 ELSE IF Val(call.top_n) < n THEN Val(call.top_n) ELSE n
        IN  /\ outcome.exc = ""
            /\ Len(outcome.value) = Len(queries)
            /\ \A q \in 1..Len(queries) :
                  /\ Len(outcome.value[q].scores) = k
                  /\ ScoresOfQuery(outcome.value[q], queries[q], documents)
                  /\ \A p \in 1..(k - 1) :
                        outcome.value[q].scores[p]["score"]
                            >= outcome.value[q].scores[p + 1]["score"]

\* two queries over two documents with top_n = 1, where the best document of
\* the two queries differs, and for the first it is not the first document
C2_Witness ==
    /\ Done("run_rerank_queries")
    /\ outcome.exc = ""
    /\ Len(outcome.value) = 2
    /\ Len(Val(call.documents)) = 2
    /\ call.top_n = Some(1)
    /\ Len(outcome.value[1].scores) = 1
    /\ outcome.value[1].scores[1]["index"] = 1
    /\ outcome.value[2].scores[1]["index"] = 0

\* C3: with lists for queries and documents of which one is empty,
\* run_rerank_queries returns an empty result list, raises nothing, and calls
\* neither the tokenizer nor the encoder, whatever top_n and the flags.
C3_EmptyInputReturnsEmpty ==
    (/\ Done("run_rerank_queries")
     /\ ~IsNone(call.queries) /\ ~IsNone(call.documents)
     /\ Val(call.queries) = <<>> \/ Val(call.documents) = <<>>) =>
        /\ outcome.exc = ""
        /\ outcome.value = <<>>
        /\ outcome.checked = <<>>
        /\ outcome.encoded = <<>>

\* no queries, and two documents of which one is too long and one has a null
\* text: an empty result all the same
C3_Witness ==
    /\ Done("run_rerank_queries")
    /\ call.queries = Some(<<>>)
    /\ ~IsNone(call.documents) /\ Len(Val(call.documents)) = 2
    /\ \E t \in DocTextArgs : TooLong(t)
    /\ \E t \in DocTextArgs : IsNone(t)
    /\ call.top_n = Some(1)
    /\ outcome.exc = "" /\ outcome.value = <<>>

\* the directory a save call names exists on disk before the call
SaveOntoExisting ==
    /\ Done("save")
    /\ ~IsNone(call.model_path)
    /\ Abspath(Strip(Val(call.model_path))) \in DOMAIN call.before

\* C4: save with a path that, stripped and made absolute, is an existing
\* directory fails and leaves the disk as it was: no config record is written
\* and no weights are serialized.
C4_SaveOntoExistingFails ==
    SaveOntoExisting =>
        /\ outcome.exc # ""
        /\ fs = call.before

\* a save named " x" while the directory x holds a config record
C4_Witness ==
    /\ SaveOntoExisting
    /\ call.model_path = Some(<<" ", "x">>)
    /\ ~IsNone(call.before[OldDir].config)
    /\ outcome.exc = "FileExistsError"

\* the directory a load call names holds a config record with the artifacts
\* key, and the subdirectory it names holds model weights
LoadOfValidDirectory ==
    /\ Done("load")
    /\ Abspath(call.model_path) \in DOMAIN fs
    /\ LET dir == fs[Abspath(call.model_path)]
       IN  /\ ~IsNone(dir.config)
           /\ ARTIFACTS_PATH_KEY \in DOMAIN Val(dir.config)
           /\ LET sub == Join(Abspath(call.model_path),
                              Val(Val(dir.config)[ARTIFACTS_PATH_KEY]))
              IN  sub \in DOMAIN fs /\ ~IsNone(fs[sub].weights)

\* C5: a failure of either optional optimization step of load (ipex.optimize,
\* torch.compile) is caught and ignored: whatever the environment flags, load
\* of a valid directory returns a handle even when the step raises.
C5_OptimizationNeverFailsLoad ==
    LoadOfValidDirectory => outcome.exc = ""

\* C6: after a save has written a directory, load of that directory succeeds
\* and yields a handle on the model that was saved, whose encode gives the same
\* output for the same input.
C6_SaveLoadRoundTrip ==
    Done("load") =>
        \A s \in saved :
            s.path = Abspath(call.model_path) =>
                /\ outcome.exc = ""
                /\ outcome.value.weights = s.weights
                /\ \A t \in ShortTexts :
                      EncodeOne(outcome.value.weights, t) = EncodeOne(s.weights, t)

\* the text C7 says a document record yields
ClaimedText(srd) ==
    IF "text" \in DOMAIN srd /\ Truthy(srd["text"]) THEN srd["text"]
    ELSE IF "_text" \in DOMAIN srd THEN srd["_text"]
    ELSE Some(<<>>)

\* C7: the text run_rerank_queries extracts from a document record is its
\* "text" if present and non-empty, else its "_text" if present, else "", and
\* it is always a str, never None.
C7_ExtractedTextIsString ==
    (Done("run_rerank_queries") /\ ~IsNone(outcome.doc_texts)) =>
        LET doc_texts == Val(outcome.doc_texts)
        IN  /\ Len(doc_texts) = Len(Val(call.documents))
            /\ \A i \in 1..Len(doc_texts) :
                  /\ doc_texts[i] = ClaimedText(Val(call.documents)[i])
                  /\ ~IsNone(doc_texts[i])

\* C8: run_rerank_query raises TypeError for a query that is not a str, before
\* any tokenizer or encode call; otherwise it gives what run_rerank_queries
\* gives for queries=[query]: its first result, or, when there is none, a result
\* with no scores whose query is the query iff return_query.
C8_RerankQueryWrapsRerankQueries ==
    Done("run_rerank_query") =>
        IF IsNone(call.query)
        THEN outcome.exc = "TypeError" /\ outcome.checked = <<>> /\ outcome.encoded = <<>>
        ELSE LET inner == RunRerankQueriesOutcome(Val(handle).weights,
                              Some(<<Val(call.query)>>), call.documents, call.top_n,
                              call.return_documents, call.return_query, call.return_text)
             IN  /\ outcome.exc = inner.exc
                 /\ outcome.checked = inner.checked
                 /\ outcome.encoded = inner.encoded
                 /\ (inner.exc = "" /\ Len(inner.value) > 0) =>
                        outcome.value = inner.value[1]
                 /\ (inner.exc = "" /\ Len(inner.value) = 0) =>
                        /\ outcome.value.scores = <<>>
                        /\ outcome.value.query =
                              IF call.return_query THEN call.query ELSE None

\* a query over no documents with return_query false: no scores, no query
C8_Witness ==
    /\ Done("run_rerank_query")
    /\ ~IsNone(call.query)
    /\ call.documents = Some(<<>>)
    /\ ~call.return_query
    /\ outcome.exc = ""
    /\ outcome.value.scores = <<>>
    /\ outcome.value.query = None

\* C9 as stated: a load never applies both ipex.optimize and torch.compile.
C9_AsStated ==
    (Done("load") /\ outcome.exc = "") => Len(outcome.value.applied) <= 1

\* C9 amended: a load applies each optimization at most once, ipex.optimize
\* exactly when IPEX_OPTIMIZE is in effect and torch.compile exactly when
\* PT2_COMPILE is set and the compile call does not raise; both are applied,
\* ipex.optimize first and torch.compile on the "ipex" backend, when both hold.
C9_OptimizationsFollowFlags ==
    (Done("load") /\ outcome.exc = "") =>
        LET applied == outcome.value.applied
            compiled == flags.PT2_COMPILE /\ ~call.compile_raises
        IN  /\ applied = (IF flags.IPEX_OPTIMIZE THEN <<"ipex.optimize">> ELSE <<>>)
                         \o (IF compiled THEN <<"torch.compile">> ELSE <<>>)
            /\ (flags.IPEX_OPTIMIZE /\ compiled) => outcome.value.backend = "ipex"
            /\ ~compiled => outcome.value.backend = ""
            /\ ~(flags.USE_XPU /\ flags.USE_MPS)

\* a load that applied ipex.optimize and then torch.compile
C9_Witness ==
    /\ Done("load")
    /\ outcome.exc = ""
    /\ outcome.value.applied = <<"ipex.optimize", "torch.compile">>
    /\ outcome.value.backend = "ipex"

\* C10: every score entry of a run_rerank_queries result has an index that is a
\* position of the documents list, distinct within its result, and no
\* corpus_id; it has the document iff return_documents, and it is
\* documents[index]; it has the text iff return_text, and it is the text
\* extracted from documents[index]; the result's query is the query iff
\* return_queries, and absent otherwise.
C10_RerankEntries ==
    (Done("run_rerank_queries") /\ outcome.exc = "") =>
        \A q \in 1..Len(outcome.value) :
            LET result == outcome.value[q]
                documents == Val(call.documents)
            IN  /\ result.query = IF call.return_queries THEN Some(Val(call.queries)[q])
                                  ELSE None
                /\ \A p \in 1..Len(result.scores) :
                      LET x == result.scores[p]
                      IN  /\ "index" \in DOMAIN x
                          /\ x["index"] \in 0..(Len(documents) - 1)
                          /\ "corpus_id" \notin DOMAIN x
                          /\ \A r \in 1..Len(result.scores) :
                                r # p => result.scores[r]["index"] # x["index"]
                          /\ "document" \in DOMAIN x <=> call.return_documents
                          /\ call.return_documents =>
                                x["document"] = documents[x["index"] + 1]
                          /\ "text" \in DOMAIN x <=> call.return_text
                          /\ call.return_text =>
                                x["text"] = ClaimedText(documents[x["index"] + 1])

\* two documents ranked, with the document but not the text in each entry, and
\* the query echoed
C10_Witness ==
    /\ Done("run_rerank_queries")
    /\ outcome.exc = ""
    /\ call.return_documents /\ ~call.return_text /\ call.return_queries
    /\ Len(outcome.value) = 1
    /\ Len(outcome.value[1].scores) = 2
    /\ outcome.value[1].scores[1]["index"] = 1
    /\ outcome.value[1].scores[1]["document"] = Val(call.documents)[2]
    /\ outcome.value[1].query = Some(Val(call.queries)[1])

====
